---- MODULE Spec2Model ----
(***************************************************************************)
(* Model of azure-devops-npm-auth (src/src/index.ts): one run of main().   *)
(* Strings are TLA+ strings handled character by character through Len,    *)
(* SubSeq and \o, so that trim, startsWith, split, join, URL parsing, the  *)
(* PAT shape test and base64 are computed the way the code computes them.  *)
(***************************************************************************)
EXTENDS Integers, Sequences, FiniteSets, TLC

(***************************************************************************)
(* Bounds of the model.                                                    *)
(***************************************************************************)
\* longest --url list drawn by Init / InitRewrite
MaxUrls == 2
\* most lines of an initial target file drawn by InitRewrite
MaxLines == 3
\* most entries of the parsed project file
MaxEntries == 2
\* most rejected prompt answers in one run
MaxRejected == 1

(***************************************************************************)
(* Program constants.                                                      *)
(***************************************************************************)
\* the {52,} of the PAT regular expression
PatMinLen == 52

(***************************************************************************)
(* String primitives of the JavaScript runtime.                            *)
(***************************************************************************)
CharAt(s, i) == SubSeq(s, i, i)

Chars(s) == { CharAt(s, i) : i \in 1..Len(s) }

StartsWith(s, p) == Len(s) >= Len(p) /\ SubSeq(s, 1, Len(p)) = p

EndsWith(s, p) == Len(s) >= Len(p) /\ SubSeq(s, Len(s) - Len(p) + 1, Len(s)) = p

RECURSIVE IndexOf(_, _, _)
\* first index >= i at which p occurs in s, 0 when there is none
IndexOf(s, p, i) ==
  IF i + Len(p) - 1 > Len(s) THEN 0
  ELSE IF SubSeq(s, i, i + Len(p) - 1) = p THEN i
  ELSE IndexOf(s, p, i + 1)

Includes(s, p) == IndexOf(s, p, 1) # 0

WhiteSpace == {" ", "\t", "\r", "\n", "\f"}

RECURSIVE TrimStart(_)
TrimStart(s) ==
  IF Len(s) > 0 /\ CharAt(s, 1) \in WhiteSpace
  THEN TrimStart(SubSeq(s, 2, Len(s)))
  ELSE s

RECURSIVE TrimEnd(_)
TrimEnd(s) ==
  IF Len(s) > 0 /\ CharAt(s, Len(s)) \in WhiteSpace
  THEN TrimEnd(SubSeq(s, 1, Len(s) - 1))
  ELSE s

Trim(s) == TrimEnd(TrimStart(s))

\* String.prototype.split with a one-character separator: the pieces between
\* the occurrences of sep, in order
Split(s, sep) ==
  LET at   == { i \in 1..Len(s) : CharAt(s, i) = sep }
      n    == Cardinality(at)
      cut  == [k \in 1..n |-> CHOOSE i \in at : Cardinality({ j \in at : j < i }) = k - 1]
      from == [k \in 1..(n + 1) |-> IF k = 1 THEN 1 ELSE cut[k - 1] + 1]
      to   == [k \in 1..(n + 1) |-> IF k = n + 1 THEN Len(s) ELSE cut[k] - 1]
  IN  [k \in 1..(n + 1) |-> SubSeq(s, from[k], to[k])]

RECURSIVE Join(_, _)
\* Array.prototype.join
Join(ls, sep) ==
  IF Len(ls) = 0 THEN ""
  ELSE IF Len(ls) = 1 THEN ls[1]
  ELSE ls[1] \o sep \o Join(Tail(ls), sep)

DigitChars == "0123456789"
UpperChars == "ABCDEFGHIJKLMNOPQRSTUVWXYZ"
LowerChars == "abcdefghijklmnopqrstuvwxyz"

UpperSet == Chars(UpperChars)

ToLowerChar(c) ==
  IF c \in UpperSet THEN CharAt(LowerChars, IndexOf(UpperChars, c, 1)) ELSE c

RECURSIVE ToLowerCase(_)
ToLowerCase(s) ==
  IF Len(s) = 0 THEN ""
  ELSE ToLowerChar(CharAt(s, 1)) \o ToLowerCase(SubSeq(s, 2, Len(s)))

RECURSIVE Repeat(_, _)
\* String.prototype.repeat
Repeat(s, n) == IF n <= 0 THEN "" ELSE s \o Repeat(s, n - 1)

(***************************************************************************)
(* URL parsing (new URL, and the parse URLPattern applies to its input).   *)
(* Modelled for inputs of the shape scheme://host/path without userinfo,   *)
(* port, query, fragment, dot segments or percent escapes: the scheme and  *)
(* the host are lower-cased, the path is kept as written.                  *)
(***************************************************************************)
ParseUrl(s) ==
  LET i    == IndexOf(s, "://", 1)
      rest == SubSeq(s, i + 3, Len(s))
      j    == IndexOf(rest, "/", 1)
      host == IF j = 0 THEN rest ELSE SubSeq(rest, 1, j - 1)
  IN  IF i <= 1 \/ host = ""
      THEN [ok |-> FALSE, protocol |-> "", hostname |-> "", pathname |-> ""]
      ELSE [ok       |-> TRUE,
            protocol |-> ToLowerCase(SubSeq(s, 1, i - 1)),
            hostname |-> ToLowerCase(host),
            pathname |-> IF j = 0 THEN "/" ELSE SubSeq(rest, j, Len(rest))]

\* the segments of a pathname: "/a/b/" gives <<"", "a", "b", "">>
Segments(pathname) == Split(pathname, "/")

\* new URLPattern("https://pkgs.dev.azure.com/:organization/_packaging/:feed/npm/registry/").exec
azureDevOpsOrganizationFeedPattern(value) ==
  LET u   == ParseUrl(value)
      seg == Segments(u.pathname)
      hit == /\ u.ok
             /\ u.protocol = "https"
             /\ u.hostname = "pkgs.dev.azure.com"
             /\ Len(seg) = 7
             /\ seg[1] = "" /\ seg[2] # "" /\ seg[3] = "_packaging" /\ seg[4] # ""
             /\ seg[5] = "npm" /\ seg[6] = "registry" /\ seg[7] = ""
  IN  [matched |-> hit, organization |-> IF hit THEN seg[2] ELSE ""]

\* new URLPattern("https://pkgs.dev.azure.com/:organization/:project/_packaging/:feed/npm/registry/").exec
azureDevOpsProjectFeedPattern(value) ==
  LET u   == ParseUrl(value)
      seg == Segments(u.pathname)
      hit == /\ u.ok
             /\ u.protocol = "https"
             /\ u.hostname = "pkgs.dev.azure.com"
             /\ Len(seg) = 8
             /\ seg[1] = "" /\ seg[2] # "" /\ seg[3] # "" /\ seg[4] = "_packaging"
             /\ seg[5] # "" /\ seg[6] = "npm" /\ seg[7] = "registry" /\ seg[8] = ""
  IN  [matched |-> hit, organization |-> IF hit THEN seg[2] ELSE ""]

\* azureDevOpsOrganizationFeedPattern.test(value) || azureDevOpsProjectFeedPattern.test(value)
match(value) ==
  azureDevOpsOrganizationFeedPattern(value).matched
    \/ azureDevOpsProjectFeedPattern(value).matched

\* azureDevOpsOrganizationFeedPattern.exec(firstUrl) || azureDevOpsProjectFeedPattern.exec(firstUrl)
result(firstUrl) ==
  IF azureDevOpsOrganizationFeedPattern(firstUrl).matched
  THEN azureDevOpsOrganizationFeedPattern(firstUrl)
  ELSE azureDevOpsProjectFeedPattern(firstUrl)

tokensUrlOf(firstUrl) ==
  "https://dev.azure.com/" \o result(firstUrl).organization \o "/_usersSettings/tokens"

(***************************************************************************)
(* isPat: /^[a-z\d]{52,}$/i                                                *)
(***************************************************************************)
PatChars == Chars(LowerChars) \cup Chars(UpperChars) \cup Chars(DigitChars)

isPat(input) ==
  /\ Len(input) >= PatMinLen
  /\ \A i \in 1..Len(input) : CharAt(input, i) \in PatChars

(***************************************************************************)
(* btoa: base64 of a string of ASCII letters and digits.                   *)
(***************************************************************************)
Base64Chars == UpperChars \o LowerChars \o DigitChars \o "+/"

charCodeAt(c) ==
  LET d == IndexOf(DigitChars, c, 1)
      u == IndexOf(UpperChars, c, 1)
      l == IndexOf(LowerChars, c, 1)
  IN  IF d # 0 THEN 47 + d
      ELSE IF u # 0 THEN 64 + u
      ELSE IF l # 0 THEN 96 + l
      ELSE IF c = "-" THEN 45
      ELSE 32

Sextet(n) == CharAt(Base64Chars, (n % 64) + 1)

RECURSIVE btoa(_)
btoa(s) ==
  IF Len(s) = 0 THEN ""
  ELSE IF Len(s) = 1 THEN
    LET a == charCodeAt(CharAt(s, 1))
    IN  Sextet(a \div 4) \o Sextet((a % 4) * 16) \o "=="
  ELSE IF Len(s) = 2 THEN
    LET n == (charCodeAt(CharAt(s, 1)) * 256 + charCodeAt(CharAt(s, 2))) * 4
    IN  Sextet(n \div 4096) \o Sextet(n \div 64) \o Sextet(n) \o "="
  ELSE
    LET n == charCodeAt(CharAt(s, 1)) * 65536 + charCodeAt(CharAt(s, 2)) * 256
               + charCodeAt(CharAt(s, 3))
    IN  Sextet(n \div 262144) \o Sextet(n \div 4096) \o Sextet(n \div 64) \o Sextet(n)
          \o btoa(SubSeq(s, 4, Len(s)))

(***************************************************************************)
(* The Config Rewriter: one iteration of the loop over the feed URLs.      *)
(***************************************************************************)
\* `//${feedUrl.hostname}${feedUrl.pathname}` of new URL(feedUrlAsString)
globalNpmrcKeyPrefix(feedUrlAsString) ==
  LET feedUrl == ParseUrl(feedUrlAsString)
  IN  "//" \o feedUrl.hostname \o feedUrl.pathname

usernamePrefix(f) == globalNpmrcKeyPrefix(f) \o ":username"
passwordPrefix(f) == globalNpmrcKeyPrefix(f) \o ":_password"
emailPrefix(f)    == globalNpmrcKeyPrefix(f) \o ":email"

usernameLine(f)     == usernamePrefix(f) \o "=VssSessionToken"
passwordLine(f, pw) == passwordPrefix(f) \o "=" \o pw
emailLine(f)        == emailPrefix(f) \o "=not-used@example.com"

\* variant: the line is compared with the key for equality
LineEquals(line, prefix) == line = prefix

\* variant: the key is searched anywhere in the line
LineIncludes(line, prefix) == Includes(line, prefix)

\* line.startsWith(prefix), line being lines[index].trim()
LineStartsWith(line, prefix) == StartsWith(line, prefix)

\* which branch of the inner loop body lines[index] takes, p being the key prefix
LineKind(l, p) ==
  LET line == Trim(l)
  IN  IF LineStartsWith(line, p \o ":username") THEN "username"
      ELSE IF LineStartsWith(line, p \o ":_password") THEN "password"
      ELSE IF LineStartsWith(line, p \o ":email") THEN "email"
      ELSE "other"

\* the value lines[index] holds after the inner loop body
ReplaceLine(l, kind, f, pw) ==
  CASE kind = "username" -> usernameLine(f)
    [] kind = "password" -> passwordLine(f, pw)
    [] kind = "email"    -> emailLine(f)
    [] OTHER             -> l

\* variant: the password push tests replacedUsername
PushedMixedFlags(kinds, f, pw) ==
  (IF "username" \in kinds THEN <<>> ELSE <<usernameLine(f)>>)
    \o (IF "username" \in kinds THEN <<>> ELSE <<passwordLine(f, pw)>>)
    \o (IF "email" \in kinds THEN <<>> ELSE <<emailLine(f)>>)

\* variant: the email push comes before the password push
PushedEmailFirst(kinds, f, pw) ==
  (IF "username" \in kinds THEN <<>> ELSE <<usernameLine(f)>>)
    \o (IF "email" \in kinds THEN <<>> ELSE <<emailLine(f)>>)
    \o (IF "password" \in kinds THEN <<>> ELSE <<passwordLine(f, pw)>>)

\* the three lines.push of the loop body, in program order; kinds is the set
\* of branches the inner loop has taken (replacedUsername, replacedPassword,
\* replacedEmail)
Pushed(kinds, f, pw) ==
  (IF "username" \in kinds THEN <<>> ELSE <<usernameLine(f)>>)
    \o (IF "password" \in kinds THEN <<>> ELSE <<passwordLine(f, pw)>>)
    \o (IF "email" \in kinds THEN <<>> ELSE <<emailLine(f)>>)

\* lines after the loop body has run for feed f
RewriteFeed(ls, f, pw) ==
  LET p    == globalNpmrcKeyPrefix(f)
      kind == [index \in 1..Len(ls) |-> LineKind(ls[index], p)]
  IN  [index \in 1..Len(ls) |-> ReplaceLine(ls[index], kind[index], f, pw)]
        \o Pushed({ kind[index] : index \in 1..Len(ls) }, f, pw)

RECURSIVE RewriteAll(_, _, _)
\* lines after the loop over the feeds fs
RewriteAll(ls, fs, pw) ==
  IF Len(fs) = 0 THEN ls
  ELSE RewriteAll(RewriteFeed(ls, Head(fs), pw), Tail(fs), pw)

\* readFileSync + split + loop + join: the text the final write stores
Rewrite(text, fs, pw) == Join(RewriteAll(Split(text, "\n"), fs, pw), "\n")

\* variant: the creating write is not guarded
AlwaysCreate(exists) == TRUE

\* !existsSync(target), the guard of the creating write
MustCreate(exists) == ~exists

(***************************************************************************)
(* Inputs.                                                                 *)
(***************************************************************************)
FeedOrg      == "https://pkgs.dev.azure.com/myorg/_packaging/myfeed/npm/registry/"
FeedProject  == "https://pkgs.dev.azure.com/myorg/myproj/_packaging/myfeed/npm/registry/"
FeedOrgUpper == "https://PKGS.dev.azure.com/myorg/_packaging/myfeed/npm/registry/"
NpmJs        == "https://registry.npmjs.org/"
FeedNoSlash  == "https://pkgs.dev.azure.com/myorg/_packaging/myfeed/npm/registry"

\* values of --url
FeedInputs == {FeedOrgUpper, FeedProject}
UrlInputs  == FeedInputs \cup {NpmJs, FeedNoSlash}

TokenA == Repeat("A", PatMinLen)
TokenB == "b7" \o Repeat("Z", PatMinLen - 1)
TokenShort == Repeat("A", PatMinLen - 1)
TokenDash  == Repeat("A", PatMinLen - 1) \o "-"

Undefined == [given |-> FALSE, value |-> ""]
Given(v)  == [given |-> TRUE, value |-> v]

\* values of --pat
PatInputs == {Undefined} \cup { Given(v) : v \in {"", TokenA, TokenShort, TokenDash} }

\* answers typed at the prompt
AnswerInputs == {"", "  ", " " \o TokenDash, " " \o TokenB \o "\t", TokenA}

PrefixOrg     == "//pkgs.dev.azure.com/myorg/_packaging/myfeed/npm/registry/"
PrefixProject == "//pkgs.dev.azure.com/myorg/myproj/_packaging/myfeed/npm/registry/"

\* non-empty lines of an initial target file
LineInputs ==
  { "  ; " \o PrefixOrg \o ":username=me  ",
    "\t" \o PrefixOrg \o ":username=me\r",
    PrefixOrg \o ":_password=old",
    PrefixOrg \o ":email=me@example.com" }

\* keys and values of the parsed project file
KeyInputs == {"registry", "@scope:registry", "email"}
EntryInputs == { <<k, v>> : k \in KeyInputs, v \in {FeedOrg, FeedProject, NpmJs} }

SeqsUpTo(S, n) == UNION { [1..k -> S] : k \in 0..n }

\* Object.entries(INI.parse(text)): top-level keys are distinct
ConfigInputs ==
  { c \in SeqsUpTo(EntryInputs, MaxEntries) :
      \A i, j \in 1..Len(c) : i # j => c[i][1] # c[j][1] }

Absent == [exists |-> FALSE, text |-> ""]
File(t) == [exists |-> TRUE, text |-> t]

(***************************************************************************)
(* State of one run of main().                                             *)
(***************************************************************************)
VARIABLES
  pc,           \* the block of main() that runs next
  optPat,       \* options.pat
  optUrl,       \* options.url ?? []
  pat,          \* let pat
  url,          \* let url
  npmrcExists,  \* existsSync(npmrc)
  npmrcRead,    \* readFileSync(npmrc) was called
  config,       \* Object.entries(INI.parse(text))
  asked,        \* the prompt was shown
  rejected,     \* answers the validate callback has rejected
  lastAnswer,   \* the answer submitted last
  tokensUrl,    \* the link printed before the prompt
  password,     \* const password
  target,       \* the target file: existence and content
  targetDir,    \* existsSync(dirname(target))
  target0,      \* the target file when the run started
  lines,        \* const lines
  feedIndex,    \* position of the loop over url
  writes,       \* calls of writeFileSync(target, ...)
  exitCode,     \* -1 while running
  error,        \* which error message was printed
  success       \* "Authentication successful." was printed

vars == <<pc, optPat, optUrl, pat, url, npmrcExists, npmrcRead, config, asked,
          rejected, lastAnswer, tokensUrl, password, target, targetDir, target0,
          lines, feedIndex, writes, exitCode, error, success>>

optVars     == <<optPat, optUrl, npmrcExists, target0>>
npmrcVars   == <<npmrcRead, config>>
promptVars  == <<asked, rejected, lastAnswer, tokensUrl>>
fileVars    == <<target, targetDir, writes>>
rewriteVars == <<password, lines, feedIndex>>
outVars     == <<exitCode, error, success>>

\* the state program.parse() leaves, apart from the inputs
Start ==
  /\ pat = optPat
  /\ url = optUrl
  /\ npmrcRead = FALSE
  /\ config = <<>>
  /\ asked = FALSE
  /\ rejected = 0
  /\ lastAnswer = ""
  /\ tokensUrl = ""
  /\ password = ""
  /\ target = target0
  /\ lines = <<>>
  /\ feedIndex = 0
  /\ writes = 0
  /\ exitCode = -1
  /\ error = ""
  /\ success = FALSE

Init ==
  /\ optPat \in PatInputs
  /\ optUrl \in SeqsUpTo(UrlInputs, MaxUrls)
  /\ npmrcExists \in BOOLEAN
  /\ \/ target0 = Absent /\ targetDir \in BOOLEAN
     \/ target0 = File("# auth\n" \o PrefixOrg \o ":email=me@example.com\n")
          /\ targetDir = TRUE
  /\ Start
  /\ pc = "validatePat"

\* console.error(...); process.exit(1)
Exit1(msg) ==
  /\ pc' = "exited"
  /\ exitCode' = 1
  /\ error' = msg
  /\ UNCHANGED success

\* lines 32-38
ValidatePat ==
  /\ pc = "validatePat"
  /\ IF pat.given /\ pat.value # "" /\ ~isPat(pat.value)
     THEN Exit1("not a PAT")
     ELSE pc' = "validateUrl" /\ UNCHANGED outVars
  /\ UNCHANGED <<optVars, pat, url, npmrcVars, promptVars, fileVars, rewriteVars>>

\* lines 40-47
ValidateUrl ==
  /\ pc = "validateUrl"
  /\ IF \E i \in 1..Len(url) : ~match(url[i])
     THEN Exit1("not a feed URL")
     ELSE pc' = "discover" /\ UNCHANGED outVars
  /\ UNCHANGED <<optVars, pat, url, npmrcVars, promptVars, fileVars, rewriteVars>>

\* variant: scoped registry keys are not recognised
isRegistryEntryUnscoped(key) == key = "registry"

\* key === "registry" || (key.startsWith("@") && key.endsWith(":registry"))
isRegistryEntry(key) ==
  key = "registry" \/ (StartsWith(key, "@") /\ EndsWith(key, ":registry"))

\* the entry survives both `continue` and its value is pushed
Kept(entry) == isRegistryEntry(entry[1]) /\ match(entry[2])

RECURSIVE Discovered(_)
\* the values the loop over Object.entries(config) pushes, in order
Discovered(c) ==
  IF Len(c) = 0 THEN <<>>
  ELSE (IF Kept(Head(c)) THEN <<Head(c)[2]>> ELSE <<>>) \o Discovered(Tail(c))

\* lines 49-74
Discover ==
  /\ pc = "discover"
  /\ IF Len(url) = 0
     THEN IF ~npmrcExists
          THEN Exit1("no project file") /\ UNCHANGED <<url, npmrcVars>>
          ELSE \E c \in ConfigInputs :
                 /\ npmrcRead' = TRUE
                 /\ config' = c
                 /\ url' = url \o Discovered(c)
                 /\ pc' = "checkUrl"
                 /\ UNCHANGED outVars
     ELSE pc' = "checkUrl" /\ UNCHANGED <<url, npmrcVars, outVars>>
  /\ UNCHANGED <<optVars, pat, promptVars, fileVars, rewriteVars>>

\* lines 76-80
CheckUrl ==
  /\ pc = "checkUrl"
  /\ IF Len(url) = 0
     THEN Exit1("no feeds")
     ELSE pc' = "havePat" /\ UNCHANGED outVars
  /\ UNCHANGED <<optVars, pat, url, npmrcVars, promptVars, fileVars, rewriteVars>>

\* lines 82-98
HavePat ==
  /\ pc = "havePat"
  /\ IF ~(pat.given /\ pat.value # "")
     THEN IF ~result(url[1]).matched
          THEN Exit1("cannot parse feed URL") /\ UNCHANGED promptVars
          ELSE /\ tokensUrl' = tokensUrlOf(url[1])
               /\ asked' = TRUE
               /\ pc' = "prompt"
               /\ UNCHANGED <<rejected, lastAnswer, outVars>>
     ELSE pc' = "encode" /\ UNCHANGED <<promptVars, outVars>>
  /\ UNCHANGED <<optVars, pat, url, npmrcVars, fileVars, rewriteVars>>

\* variant: the shape test of the answer is missing
validateNonEmpty(input) == Trim(input) # ""

\* the validate callback, lines 104-113: TRUE when it returns true
validate(input) ==
  LET trimmed == Trim(input)
  IN  trimmed # "" /\ isPat(trimmed)

\* lines 100-116: one answer submitted to the prompt
Prompt ==
  /\ pc = "prompt"
  /\ \E input \in AnswerInputs :
       /\ lastAnswer' = input
       /\ IF validate(input)
          THEN /\ pat' = Given(Trim(input))
               /\ pc' = "encode"
               /\ UNCHANGED rejected
          ELSE /\ rejected < MaxRejected
               /\ rejected' = rejected + 1
               /\ UNCHANGED <<pat, pc>>
  /\ UNCHANGED <<optVars, url, npmrcVars, asked, tokensUrl, fileVars, rewriteVars, outVars>>

\* line 119
Encode ==
  /\ pc = "encode"
  /\ password' = btoa(pat.value)
  /\ pc' = "createTarget"
  /\ UNCHANGED <<optVars, pat, url, npmrcVars, promptVars, fileVars, lines, feedIndex,
                 outVars>>

\* lines 121-128
CreateTarget ==
  /\ pc = "createTarget"
  /\ IF MustCreate(target.exists)
     THEN /\ targetDir' = TRUE
          /\ target' = File("")
          /\ writes' = writes + 1
     ELSE UNCHANGED fileVars
  /\ pc' = "readTarget"
  /\ UNCHANGED <<optVars, pat, url, npmrcVars, promptVars, rewriteVars, outVars>>

\* lines 133-134
ReadTarget ==
  /\ pc = "readTarget"
  /\ lines' = Split(target.text, "\n")
  /\ feedIndex' = 1
  /\ pc' = "rewrite"
  /\ UNCHANGED <<optVars, pat, url, npmrcVars, promptVars, fileVars, password, outVars>>

\* lines 135-182: the loop body for one feed
RewriteStep ==
  /\ pc = "rewrite"
  /\ feedIndex <= Len(url)
  /\ lines' = RewriteFeed(lines, url[feedIndex], password)
  /\ feedIndex' = feedIndex + 1
  /\ UNCHANGED <<pc, optVars, pat, url, npmrcVars, promptVars, fileVars, password, outVars>>

\* lines 184-185
WriteTarget ==
  /\ pc = "rewrite"
  /\ feedIndex > Len(url)
  /\ target' = File(Join(lines, "\n"))
  /\ writes' = writes + 1
  /\ pc' = "written"
  /\ UNCHANGED <<optVars, pat, url, npmrcVars, promptVars, targetDir, rewriteVars, outVars>>

\* line 187 and the return of main()
Succeed ==
  /\ pc = "written"
  /\ success' = TRUE
  /\ exitCode' = 0
  /\ pc' = "exited"
  /\ UNCHANGED <<optVars, pat, url, npmrcVars, promptVars, fileVars, rewriteVars, error>>

\* the process is interrupted from outside (SIGINT) between two steps
Interrupt ==
  /\ pc \notin {"exited", "killed"}
  /\ pc' = "killed"
  /\ UNCHANGED <<optVars, pat, url, npmrcVars, promptVars, fileVars, rewriteVars, outVars>>

Next ==
  \/ ValidatePat
  \/ ValidateUrl
  \/ Discover
  \/ CheckUrl
  \/ HavePat
  \/ Prompt
  \/ Encode
  \/ CreateTarget
  \/ ReadTarget
  \/ RewriteStep
  \/ WriteTarget
  \/ Succeed
  \/ Interrupt

Spec == Init /\ [][Next]_vars

(***************************************************************************)
(* The Config Rewriter alone: the run starts where the Input Resolver has  *)
(* accepted --pat and --url. The target file does not exist, is empty, or  *)
(* holds at most MaxLines lines, each ended by a newline.                  *)
(***************************************************************************)
TextInputs ==
  { Join(ls \o <<"">>, "\n") : ls \in SeqsUpTo(LineInputs, MaxLines) }

InitRewrite ==
  /\ optPat = Given(TokenA)
  /\ optUrl \in SeqsUpTo(FeedInputs, MaxUrls) \ {<<>>}
  /\ npmrcExists = FALSE
  /\ targetDir = TRUE
  /\ target0 \in {Absent} \cup { File(t) : t \in TextInputs }
  /\ Start
  /\ pc = "encode"

NextRewrite ==
  \/ Encode
  \/ CreateTarget
  \/ ReadTarget
  \/ RewriteStep
  \/ WriteTarget
  \/ Succeed

SpecRewrite == InitRewrite /\ [][NextRewrite]_vars

(***************************************************************************)
(* Vocabulary of the properties.                                           *)
(***************************************************************************)
\* the run has written the rewritten target and reported success
Final == pc = "exited" /\ success

\* the lines the rewrite starts from: those of the target as the run found it,
\* a missing target counting as an empty one
In0 == Split(IF target0.exists THEN target0.text ELSE "", "\n")

\* the lines of the target as it is now
Out == Split(target.text, "\n")

\* the inputs that conform to one of the two feed templates
ConformingInputs == {FeedOrg, FeedOrgUpper, FeedProject}

\* //{hostname}{pathname} of a conforming input
ExpectedPrefix(u) == IF u = FeedProject THEN PrefixProject ELSE PrefixOrg

\* the shape of a token: 52 or more ASCII letters and digits
AsciiLettersAndDigits ==
  Chars("0123456789ABCDEFGHIJKLMNOPQRSTUVWXYZabcdefghijklmnopqrstuvwxyz")

TokenShape(t) ==
  /\ Len(t) >= PatMinLen
  /\ \A i \in 1..Len(t) : CharAt(t, i) \in AsciiLettersAndDigits

\* base64 of the tokens of the model (RFC 4648)
Base64Of(t) ==
  IF t = TokenA
  THEN "QUFBQUFBQUFBQUFBQUFBQUFBQUFBQUFBQUFBQUFBQUFBQUFBQUFBQUFBQUFBQUFBQUFBQQ=="
  ELSE "YjdaWlpaWlpaWlpaWlpaWlpaWlpaWlpaWlpaWlpaWlpaWlpaWlpaWlpaWlpaWlpaWlpaWlo="

SubKeys == <<":username", ":_password", ":email">>

ExpectedValue(k, t) ==
  CASE k = 1 -> "VssSessionToken"
    [] k = 2 -> Base64Of(t)
    [] k = 3 -> "not-used@example.com"

\* the generated line of sub-key k for feed u
ExpectedLine(u, k) ==
  ExpectedPrefix(u) \o SubKeys[k] \o "=" \o ExpectedValue(k, pat.value)

\* the trimmed line starts with sub-key k of feed u
IsEntry(l, u, k) == StartsWith(Trim(l), ExpectedPrefix(u) \o SubKeys[k])

Count(ls, u, k) == Cardinality({ j \in 1..Len(ls) : IsEntry(ls[j], u, k) })

\* the line starts with none of the sub-keys generated in this run
Unrelated(l) == \A i \in 1..Len(url), k \in 1..3 : ~IsEntry(l, url[i], k)

Max(a, b) == IF a >= b THEN a ELSE b

(***************************************************************************)
(* Config Rewriter properties (SpecRewrite).                               *)
(***************************************************************************)
\* C1 as stated: after the rewrite, for every feed prefix P and each of
\* P:username, P:_password, P:email, exactly one line (trimmed) starts with the
\* sub-key, and it is the generated line, whatever the initial text was.
C1_ExactlyOne ==
  Final =>
    LET out == Out
    IN  \A i \in 1..Len(url), k \in 1..3 :
          /\ Count(out, url[i], k) = 1
          /\ \A j \in 1..Len(out) :
               IsEntry(out[j], url[i], k) => out[j] = ExpectedLine(url[i], k)

\* C1 amended: after the rewrite, for every feed prefix P and each sub-key, at
\* least one line starts with the sub-key: exactly one when the initial text
\* held at most one such line, and as many as the initial text held otherwise;
\* every such line is the generated line.
C1_Triple ==
  Final =>
    LET in0 == In0
        out == Out
    IN  \A i \in 1..Len(url), k \in 1..3 :
          /\ Count(out, url[i], k) = Max(1, Count(in0, url[i], k))
          /\ \A j \in 1..Len(out) :
               IsEntry(out[j], url[i], k) => out[j] = ExpectedLine(url[i], k)

\* a rewrite whose initial text held two lines for one sub-key has finished
C1_Witness ==
  /\ Final
  /\ \E k \in 1..3 : Count(In0, url[1], k) >= 2 /\ Count(Out, url[1], k) >= 2

\* C2: rewriting the output of a finished rewrite again, with the same token
\* and feed list, yields the same text byte for byte.
C2_Idempotent ==
  Final => Rewrite(target.text, url, password) = target.text

\* a rewrite that replaced one entry in place and appended another has finished
C2_Witness ==
  /\ Final
  /\ target0.exists
  /\ target.text # target0.text
  /\ Count(In0, url[1], 1) > 0
  /\ Count(In0, url[1], 2) = 0

\* C3: during and after the rewrite, every initial line that starts with none
\* of the generated sub-keys is at its initial index with its initial content,
\* and no initial line is removed.
C3_NonInterference ==
  (pc \in {"rewrite", "written"} \/ Final) =>
    LET in0 == In0
        cur == IF pc = "rewrite" THEN lines ELSE Out
    IN  /\ Len(cur) >= Len(in0)
        /\ \A j \in 1..Len(in0) : Unrelated(in0[j]) => cur[j] = in0[j]

\* a rewrite has finished that kept an indented unrelated line which holds a
\* sub-key inside, and replaced an entry
C3_Witness ==
  /\ Final
  /\ \E j \in 1..Len(In0) :
       /\ Unrelated(In0[j])
       /\ Trim(In0[j]) # In0[j]
       /\ Includes(In0[j], ExpectedPrefix(url[1]) \o SubKeys[1])
       /\ Out[j] = In0[j]
  /\ \E j \in 1..Len(In0) : Out[j] # In0[j]

\* C4: with one feed, each sub-key found in the initial text has all its lines
\* replaced in place and nothing appended; each sub-key not found gets one line
\* appended; the appended lines are those of the missing sub-keys in the order
\* username, _password, email, so the line count grows by their number.
C4_AppendVsReplace ==
  (Final /\ Len(url) = 1) =>
    LET u       == url[1]
        in0     == In0
        out     == Out
        missing == SelectSeq(<<1, 2, 3>>, LAMBDA k : Count(in0, u, k) = 0)
    IN  /\ Len(out) = Len(in0) + Len(missing)
        /\ \A n \in 1..Len(missing) : out[Len(in0) + n] = ExpectedLine(u, missing[n])
        /\ \A j \in 1..Len(in0), k \in 1..3 :
             IsEntry(in0[j], u, k) => out[j] = ExpectedLine(u, k)

\* a rewrite for one feed has finished whose initial text held all three
\* sub-keys: nothing was appended
C4_Witness ==
  /\ Final
  /\ Len(url) = 1
  /\ \A k \in 1..3 : Count(In0, url[1], k) > 0
  /\ Len(Out) = Len(In0)
  /\ target.text # target0.text

\* C5: from an empty or missing target, a rewrite for distinct feed URLs leaves
\* exactly the generated lines, three per feed in input order, and no other line.
C5_ExactContent ==
  (/\ Final
   /\ (~target0.exists \/ target0.text = "")
   /\ \A i, j \in 1..Len(url) : i # j => url[i] # url[j]) =>
    LET out == Out
    IN  /\ Len(out) = 3 * Len(url)
        /\ \A i \in 1..Len(url), k \in 1..3 :
             out[3 * (i - 1) + k] = ExpectedLine(url[i], k)

(***************************************************************************)
(* Input Resolver and whole-run properties (Spec).                         *)
(***************************************************************************)
\* one of the validation failures of the claim holds of this run
ValidationFailure ==
  \/ optPat.given /\ ~TokenShape(optPat.value)
  \/ \E i \in 1..Len(optUrl) : optUrl[i] \notin ConformingInputs
  \/ optUrl = <<>> /\ ~npmrcExists
  \/ npmrcRead /\ url = <<>>

\* C6: when the flag-supplied token fails the shape check, or a --url value
\* matches neither template, or no --url is given and the project file is
\* missing, or the scan yields no feed URL, the run never gets past validation:
\* it exits with code 1, prints no success message and leaves the target as it
\* was.
C6_ValidationFatal ==
  ValidationFailure =>
    /\ pc \notin {"encode", "createTarget", "readTarget", "rewrite", "written"}
    /\ (pc = "exited" => exitCode = 1)
    /\ ~success
    /\ writes = 0
    /\ target = target0

\* C7: when --pat was supplied, whatever its value, the interactive prompt is
\* never shown.
C7_FlagNeverPrompts ==
  optPat.given => (~asked /\ pc # "prompt")

\* the feed URLs have been resolved and the run goes on
Resolved ==
  pc \in {"havePat", "prompt", "encode", "createTarget", "readTarget", "rewrite", "written"}
    \/ Final

\* the key is `registry` or of the form @<scope>:registry
IsRegistryKey(k) ==
  \/ k = "registry"
  \/ /\ Len(k) >= Len("@:registry")
     /\ CharAt(k, 1) = "@"
     /\ SubSeq(k, Len(k) - Len(":registry") + 1, Len(k)) = ":registry"

\* the values of the registry keys that conform to a template, in file order
ExpectedFeeds(c) ==
  LET kept == SelectSeq(c, LAMBDA e : IsRegistryKey(e[1]) /\ e[2] \in ConformingInputs)
  IN  [i \in 1..Len(kept) |-> kept[i][2]]

\* C8: with --url given, the resolved list is the given list and the project
\* file is never read, its absence being no error; without --url, the resolved
\* list is the conforming values of the registry keys of the project file in
\* file order, and the other entries cause no error while one feed remains.
C8_Resolution ==
  /\ (Resolved /\ optUrl # <<>>) => url = optUrl
  /\ optUrl # <<>> => (~npmrcRead /\ error # "no project file")
  /\ (Resolved /\ optUrl = <<>>) => (npmrcRead /\ url = ExpectedFeeds(config))
  /\ (npmrcRead /\ ExpectedFeeds(config) # <<>>) => (exitCode # 1 /\ error = "")

\* the project file of the example has been scanned: the Azure registry is
\* kept, the scoped npmjs registry is dropped
C8_Witness ==
  /\ Resolved
  /\ optUrl = <<>>
  /\ config = << <<"registry", FeedOrg>>, <<"@scope:registry", NpmJs>> >>
  /\ url = <<FeedOrg>>

\* the run is at or past the first write of the target
Writing ==
  writes > 0 \/ pc \in {"createTarget", "readTarget", "rewrite", "written"} \/ success

\* C9: the target is written only once the run holds a non-empty list of
\* conforming feed URLs and one token of the right shape, which is the
\* trimmed answer when the prompt was used; a rejected answer leaves the run at
\* the prompt; the token in every feed's _password line is that token.
C9_Gate ==
  /\ Writing =>
       /\ url # <<>>
       /\ \A i \in 1..Len(url) : url[i] \in ConformingInputs
       /\ pat.given
       /\ TokenShape(Trim(pat.value))
       /\ asked => pat.value = Trim(lastAnswer)
  /\ (pc = "prompt" /\ rejected > 0) => ~TokenShape(Trim(lastAnswer))
  /\ (asked /\ pc \notin {"prompt", "killed"}) => TokenShape(Trim(lastAnswer))
  /\ Final =>
       LET out == Out
       IN  \A i \in 1..Len(url) :
             /\ Count(out, url[i], 2) >= 1
             /\ \A j \in 1..Len(out) :
                  IsEntry(out[j], url[i], 2) => out[j] = ExpectedLine(url[i], 2)

\* a run has succeeded whose prompt rejected an answer before it accepted a
\* padded token
C9_Witness ==
  /\ Final
  /\ asked
  /\ rejected > 0
  /\ lastAnswer # Trim(lastAnswer)
  /\ pat.value = TokenB

\* the text the final write stores: the rewrite of the initial target
Complete == Rewrite(IF target0.exists THEN target0.text ELSE "", url, password)

\* C10 as stated: in every state the target is as it was at the start or holds
\* the complete rewritten text; it is written at most once, by the final write.
C10_AllOrNothing ==
  /\ target = target0 \/ target = File(Complete)
  /\ writes <= 1
  /\ writes = 1 => pc \in {"written", "exited", "killed"}

\* C10 amended: in every state the target is as it was at the start, or -- only
\* when it did not exist at the start -- a newly created empty file, or holds
\* the complete rewritten text; a successful run ends with the final whole-file
\* write, preceded by the creating write when the target was missing; a run
\* that fails validation writes nothing.
C10_NoPartialRewrite ==
  LET created == IF target0.exists THEN 0 ELSE 1
  IN  /\ \/ writes = 0 /\ target = target0 /\ ~success
         \/ /\ writes = 1 /\ created = 1 /\ target = File("") /\ ~success
            /\ pc \in {"readTarget", "rewrite", "killed"}
         \/ /\ writes = created + 1 /\ target = File(Complete)
            /\ pc \in {"written", "exited", "killed"}
      /\ exitCode = 1 => writes = 0
      /\ success => writes = created + 1

\* a run was interrupted after it created the missing target and before the
\* final write
C10_Witness ==
  /\ pc = "killed"
  /\ ~target0.exists
  /\ target = File("")
  /\ writes = 1

====
